---- MODULE Spec2Model ----
(***************************************************************************)
(* A model of the ISIC challenge scoring engine:                           *)
(*   - src/Python/scoreP1.py: segmentation scoring (loadImage,             *)
(*     matchInputFile, scoreP1Image, scoreP1);                             *)
(*   - src/isic_challenge_scoring/task3.py: classification scoring         *)
(*     (parseCsv, excludeRows, validateRows, sortRows, computeMetrics).    *)
(*                                                                         *)
(* Strings that the code orders or searches (file names, image             *)
(* identifiers) are sequences of character codes, so that Python's str     *)
(* comparison, split, rsplit and `in` are computed and not assumed.        *)
(* A call either returns or raises: Return(v) / Raise(e).                  *)
(***************************************************************************)
EXTENDS Integers, Sequences, FiniteSets, TLC

VARIABLES
    pc,                      \* position of the call under study
    imagePath,               \* loadImage: the file at imagePath
    truthPath,               \* scoreP1Image: the file at truthPath
    testPath,                \* scoreP1Image: the file at testPath
    truthFile,               \* matchInputFile: the ground-truth file name
    truthDir,                \* scoreP1: the names in the ground-truth directory
    testDir,                 \* os.listdir(testDir): the names, in listing order
    scores,                  \* scoreP1: the local list `scores`
    attempted,               \* scoreP1: ground-truth files whose loop body began
    csvFileStream,           \* parseCsv: the CSV text, as header and rows
    truthFileStream,         \* computeMetrics: the ground-truth CSV
    predictionFileStream,    \* computeMetrics: the submitted CSV
    truthProbabilities,      \* computeMetrics: the local table of that name
    predictionProbabilities, \* computeMetrics: the local table of that name
    out                      \* what the call returned or raised, "none" before

vars == <<pc, imagePath, truthPath, testPath, truthFile, truthDir, testDir,
          scores, attempted, csvFileStream, truthFileStream,
          predictionFileStream, truthProbabilities, predictionProbabilities,
          out>>

(***************************************************************************)
(* Bounds of the model.                                                    *)
(***************************************************************************)
MaxPixels == 4
MaxNameLen == 2
MaxFiles == 2
MaxTestFiles == 1
MaxTestNameLen == 1
MaxCandidates == 2
MaxCsvRows == 2
MaxBadCells == 2
MaxImages == 3

(***************************************************************************)
(* Values and outcomes.                                                    *)
(***************************************************************************)
Range(s) == {s[i] : i \in DOMAIN s}

Return(v) == [ok |-> TRUE, value |-> v]

Raise(e) == [ok |-> FALSE, error |-> e]

\* A Python float obtained by dividing two counts: the reduced fraction
\* (IEEE division is correctly rounded, so equal fractions are equal floats).
RECURSIVE GCD(_, _)
GCD(a, b) == IF b = 0 THEN a ELSE GCD(b, a % b)

Float(n, d) == <<n \div GCD(n, d), d \div GCD(n, d)>>

One == <<1, 1>>

Zero == <<0, 1>>

(***************************************************************************)
(* Python str operations on sequences of character codes.                  *)
(***************************************************************************)
\* '_'
Underscore == 95

\* a < b for Python str: code point order, a proper prefix first
RECURSIVE StrLess(_, _)
StrLess(a, b) ==
    IF b = <<>> THEN FALSE
    ELSE IF a = <<>> THEN TRUE
    ELSE IF a[1] # b[1] THEN a[1] < b[1]
    ELSE StrLess(Tail(a), Tail(b))

\* s.split('_')
RECURSIVE split(_)
split(s) ==
    IF \A i \in DOMAIN s : s[i] # Underscore THEN <<s>>
    ELSE LET k == CHOOSE i \in DOMAIN s :
                     s[i] = Underscore /\ \A j \in 1..(i - 1) : s[j] # Underscore
         IN <<SubSeq(s, 1, k - 1)>> \o split(SubSeq(s, k + 1, Len(s)))

\* s.rsplit('_', 1)[0]
rsplit(s) ==
    IF \A i \in DOMAIN s : s[i] # Underscore THEN s
    ELSE LET k == CHOOSE i \in DOMAIN s :
                     s[i] = Underscore /\ \A j \in (i + 1)..Len(s) : s[j] # Underscore
         IN SubSeq(s, 1, k - 1)

\* sub in s
Contains(sub, s) ==
    \E i \in 0..(Len(s) - Len(sub)) : SubSeq(s, i + 1, i + Len(sub)) = sub

\* the list sorted(names) of a directory's (distinct) names, in the other order
RECURSIVE sortedDescending(_)
sortedDescending(names) ==
    IF names = {} THEN <<>>
    ELSE LET m == CHOOSE x \in names : \A y \in names : x = y \/ StrLess(y, x)
         IN <<m>> \o sortedDescending(names \ {m})

\* sorted(os.listdir(truthDir)): a directory's names are distinct, so the
\* order in which os.listdir gives them does not show in the result
RECURSIVE sorted(_)
sorted(names) ==
    IF names = {} THEN <<>>
    ELSE LET m == CHOOSE x \in names : \A y \in names : x = y \/ StrLess(x, y)
         IN <<m>> \o sorted(names \ {m})

(***************************************************************************)
(* src/Python/scoreP1.py: loadImage.                                       *)
(* A file is [decodable, mode, shape, data]; a decoded image is the numpy  *)
(* uint8 array [shape, data], data being the samples in row-major order.   *)
(***************************************************************************)
Threshold == 128

\* image /= highValue; image *= 255, on a uint8 array: integer division
\* (Python 2 `/` on integer arrays), then a product that wraps at 2^8
rescale(data, highValue) ==
    [i \in DOMAIN data |-> ((data[i] \div highValue) * 255) % 256]

\* The outcomes of loadImage(imagePath). (imageValues - {0}).pop() takes an
\* arbitrary non-zero value; where numpy refuses the in-place true division
\* of an integer array (Python 3), `image /= highValue` raises TypeError.
loadImage(file) ==
    IF ~file.decodable THEN {Raise("Could not decode image")}
    ELSE IF file.mode # "L" THEN {Raise("Image is not single-channel (grayscale).")}
    ELSE LET image == [shape |-> file.shape, data |-> file.data]
             imageValues == Range(image.data)
         IN IF imageValues \subseteq {0, 255} THEN {Return(image)}
            ELSE IF Cardinality(imageValues) <= 2
            THEN {Raise("TypeError")} \cup
                 { LET rescaled == [shape |-> image.shape,
                                    data |-> rescale(image.data, highValue)]
                       unique == Range(rescaled.data)
                   IN IF {0, 255} \subseteq unique /\ unique # {0, 255}
                      THEN Raise("Image contains values other than 0 and 255.")
                      ELSE Return(rescaled)
                   : highValue \in imageValues \ {0} }
            ELSE {Raise("Image contains values other than 0 and 255.")}

(***************************************************************************)
(* src/Python/scoreP1.py: matchInputFile.                                  *)
(* os.path.join(testDir, testFile) is modelled by testFile, the directory  *)
(* being fixed.                                                            *)
(***************************************************************************)
\* the loop with `return` at the last candidate that matches, not the first
RECURSIVE matchInputFileLast(_, _)
matchInputFileLast(truthFileName, listing) ==
    IF listing = <<>> THEN Raise("No matching submission image")
    ELSE IF Len(split(truthFileName)) < 2 THEN Raise("IndexError")
    ELSE IF Contains(split(truthFileName)[2], listing[Len(listing)])
         THEN Return(listing[Len(listing)])
         ELSE matchInputFileLast(truthFileName, SubSeq(listing, 1, Len(listing) - 1))

\* for testFile in os.listdir(testDir): ...; listing is what is left to visit
RECURSIVE matchInputFile(_, _)
matchInputFile(truthFileName, listing) ==
    IF listing = <<>> THEN Raise("No matching submission image")
    ELSE IF Len(split(truthFileName)) < 2 THEN Raise("IndexError")
    ELSE IF Contains(split(truthFileName)[2], Head(listing))
         THEN Return(Head(listing))
         ELSE matchInputFile(truthFileName, Tail(listing))

(***************************************************************************)
(* src/Python/scoreP1.py: scoreP1Image.                                    *)
(***************************************************************************)
\* image > 128
binary(image) == [i \in DOMAIN image.data |-> image.data[i] > Threshold]

\* 1 - binaryImage, read as a truth value by np.logical_and
negative(binaryImage) == [i \in DOMAIN binaryImage |-> ~binaryImage[i]]

\* np.sum(np.logical_and(a, b)) for two arrays of one shape
sumAnd(a, b) == Cardinality({i \in DOMAIN a : a[i] /\ b[i]})

NoCounts ==
    [truthPixelSum |-> -1, testPixelSum |-> -1, truePositive |-> -1,
     trueNegative |-> -1, falsePositive |-> -1, falseNegative |-> -1]

\* the counts with trueNegative taken from the positive masks
confusionCountsSlip(truthImage, testImage) ==
    LET truthBinaryImage == binary(truthImage)
        testBinaryImage == binary(testImage)
    IN [truthPixelSum |-> sumAnd(truthBinaryImage, truthBinaryImage),
        testPixelSum |-> sumAnd(testBinaryImage, testBinaryImage),
        truePositive |-> sumAnd(truthBinaryImage, testBinaryImage),
        trueNegative |-> sumAnd(truthBinaryImage, testBinaryImage),
        falsePositive |-> sumAnd(negative(truthBinaryImage), testBinaryImage),
        falseNegative |-> sumAnd(truthBinaryImage, negative(testBinaryImage))]

\* lines 61-77: the binary masks and the six sums
confusionCounts(truthImage, testImage) ==
    LET truthBinaryImage == binary(truthImage)
        testBinaryImage == binary(testImage)
        truthBinaryNegativeImage == negative(truthBinaryImage)
        testBinaryNegativeImage == negative(testBinaryImage)
    IN [truthPixelSum |-> sumAnd(truthBinaryImage, truthBinaryImage),
        testPixelSum |-> sumAnd(testBinaryImage, testBinaryImage),
        truePositive |-> sumAnd(truthBinaryImage, testBinaryImage),
        trueNegative |-> sumAnd(truthBinaryNegativeImage, testBinaryNegativeImage),
        falsePositive |-> sumAnd(truthBinaryNegativeImage, testBinaryImage),
        falseNegative |-> sumAnd(truthBinaryImage, testBinaryNegativeImage)]

\* the metrics with jaccard's denominator taken as that of accuracy
metricsListSlip(c) ==
    IF c.truePositive + c.trueNegative + c.falsePositive + c.falseNegative = 0
       \/ c.truePositive + c.falseNegative + c.falsePositive = 0
       \/ c.truthPixelSum + c.testPixelSum = 0
       \/ c.truePositive + c.falseNegative = 0
       \/ c.trueNegative + c.falsePositive = 0
    THEN Raise("ZeroDivisionError")
    ELSE Return(<<
        [name |-> "accuracy",
         value |-> Float(c.truePositive + c.trueNegative,
                         c.truePositive + c.trueNegative
                         + c.falsePositive + c.falseNegative)],
        [name |-> "jaccard",
         value |-> Float(c.truePositive,
                         c.truePositive + c.trueNegative
                         + c.falsePositive + c.falseNegative)],
        [name |-> "dice",
         value |-> Float(2 * c.truePositive, c.truthPixelSum + c.testPixelSum)],
        [name |-> "sensitivity",
         value |-> Float(c.truePositive, c.truePositive + c.falseNegative)],
        [name |-> "specificity",
         value |-> Float(c.trueNegative, c.trueNegative + c.falsePositive)]>>)

\* lines 79-102: the list `metrics`; the counts are Python floats, and a
\* float division by zero raises ZeroDivisionError
metricsList(c) ==
    IF c.truePositive + c.trueNegative + c.falsePositive + c.falseNegative = 0
       \/ c.truePositive + c.falseNegative + c.falsePositive = 0
       \/ c.truthPixelSum + c.testPixelSum = 0
       \/ c.truePositive + c.falseNegative = 0
       \/ c.trueNegative + c.falsePositive = 0
    THEN Raise("ZeroDivisionError")
    ELSE Return(<<
        [name |-> "accuracy",
         value |-> Float(c.truePositive + c.trueNegative,
                         c.truePositive + c.trueNegative
                         + c.falsePositive + c.falseNegative)],
        [name |-> "jaccard",
         value |-> Float(c.truePositive,
                         c.truePositive + c.falseNegative + c.falsePositive)],
        [name |-> "dice",
         value |-> Float(2 * c.truePositive, c.truthPixelSum + c.testPixelSum)],
        [name |-> "sensitivity",
         value |-> Float(c.truePositive, c.truePositive + c.falseNegative)],
        [name |-> "specificity",
         value |-> Float(c.trueNegative, c.trueNegative + c.falsePositive)]>>)

NoImage == [shape |-> <<0, 0>>, data |-> <<>>]

\* The runs of scoreP1Image(truthPath, testPath): each is its locals
\* truthImage, testImage (NoImage when not loaded) and the counts (NoCounts
\* when it raised before line 61), and its result.
scoreP1Image(truthFileAtPath, testFileAtPath) ==
    UNION { IF ~truthLoad.ok
            THEN {[truthImage |-> NoImage, testImage |-> NoImage,
                   counts |-> NoCounts, result |-> Raise(truthLoad.error)]}
            ELSE { IF ~testLoad.ok
                   THEN [truthImage |-> truthLoad.value, testImage |-> NoImage,
                         counts |-> NoCounts, result |-> Raise(testLoad.error)]
                   ELSE IF testLoad.value.shape # truthLoad.value.shape
                   THEN [truthImage |-> truthLoad.value,
                         testImage |-> testLoad.value,
                         counts |-> NoCounts,
                         result |-> Raise("Image has dimensions other than expected.")]
                   ELSE [truthImage |-> truthLoad.value,
                         testImage |-> testLoad.value,
                         counts |-> confusionCounts(truthLoad.value, testLoad.value),
                         result |-> metricsList(
                             confusionCounts(truthLoad.value, testLoad.value))]
                   : testLoad \in loadImage(testFileAtPath) }
            : truthLoad \in loadImage(truthFileAtPath) }

(***************************************************************************)
(* src/Python/scoreP1.py: scoreP1, one iteration of its loop.              *)
(***************************************************************************)
\* The body of `for truthFile in sorted(os.listdir(truthDir))` for the file
\* name `name`, the files read being truthContent and testContent: the
\* Score Record to append, or the exception that `raise` passes on.
loopBody(name, listing, truthContent, testContent) ==
    LET matched == matchInputFile(name, listing)
    IN IF ~matched.ok THEN {Raise(matched.error)}
       ELSE { IF run.result.ok
              THEN Return([dataset |-> rsplit(name), metrics |-> run.result.value])
              ELSE Raise(run.result.error)
              : run \in scoreP1Image(truthContent, testContent) }

(***************************************************************************)
(* src/isic_challenge_scoring/task3.py.                                    *)
(* A CSV is [header, image, cells]: the column names in file order, the    *)
(* cells of the 'image' column row by row (not seen when the header has no *)
(* 'image'), and per row the text of the cell under each other column.     *)
(* A table (DataFrame) is [columns, index, data]: data[r][label] is a      *)
(* float in tenths.                                                        *)
(***************************************************************************)
CATEGORIES == <<"MEL", "NV", "BCC", "AKIEC", "BKL", "DF", "VASC">>

\* 'ISIC_0035068'
EXCLUDE_LABELS == {<<73, 83, 73, 67, 95, 48, 48, 51, 53, 48, 54, 56>>}

ScoreException(message, columns, images) ==
    Raise([message |-> message, columns |-> columns, images |-> images])

\* pd.read_csv on one cell: empty is NaN, a number is read in tenths
Literal(cell) ==
    CASE cell = "" -> [t |-> "nan", x |-> 0]
      [] cell = "0" -> [t |-> "int", x |-> 0]
      [] cell = "1" -> [t |-> "int", x |-> 10]
      [] cell = "-0.5" -> [t |-> "float", x |-> -5]
      [] cell = "0.0" -> [t |-> "float", x |-> 0]
      [] cell = "0.5" -> [t |-> "float", x |-> 5]
      [] cell = "1.0" -> [t |-> "float", x |-> 10]
      [] cell = "1.5" -> [t |-> "float", x |-> 15]
      [] OTHER -> [t |-> "str", x |-> 0]

\* pd.read_csv on one column: the parsed cells of the column `label`
column(csv, label) == [r \in DOMAIN csv.cells |-> Literal(csv.cells[r][label])]

\* the dtype pd.read_csv gives a column: object without rows or with text,
\* int64 when every cell is an integer, float64 otherwise (NaN is a float)
dtype(col) ==
    IF Len(col) = 0 \/ \E r \in DOMAIN col : col[r].t = "str" THEN "object"
    ELSE IF \A r \in DOMAIN col : col[r].t = "int" THEN "int64"
    ELSE "float64"

\* set_index(..., verify_integrity=True) raises on a duplicate key
hasDuplicates(index) == \E i, j \in DOMAIN index : i # j /\ index[i] = index[j]

\* the difference that names one missing label only
missingColumnsFirstOnly(columns) ==
    LET missing == {CATEGORIES[i] : i \in DOMAIN CATEGORIES} \ columns
    IN IF missing = {} THEN {}
       ELSE {CATEGORIES[CHOOSE i \in DOMAIN CATEGORIES :
                 /\ CATEGORIES[i] \in missing
                 /\ \A j \in 1..(i - 1) : CATEGORIES[j] \notin missing]}

\* CATEGORIES.difference(probabilities.columns), as the set it lists
missingColumns(columns) == {CATEGORIES[i] : i \in DOMAIN CATEGORIES} \ columns

\* probabilities.columns.difference(CATEGORIES), as the set it lists
extraColumns(columns) == columns \ {CATEGORIES[i] : i \in DOMAIN CATEGORIES}

\* the range test without its lower bound
outOfRangeAboveOnly(x) == x > 10

\* lambda x: x < 0.0 or x > 1.0, in tenths
outOfRange(x) == x < 0 \/ x > 10

\* frame[mask].index.tolist(): the ids of the rows in `rows`, in row order
RowsAt(index, rows) ==
    LET keep[k \in 0..Len(index)] ==
            IF k = 0 THEN <<>>
            ELSE IF k \in rows THEN Append(keep[k - 1], index[k]) ELSE keep[k - 1]
    IN keep[Len(index)]

\* probabilities.reindex(CATEGORIES, axis='columns'): the columns after it
reindex(columnsInFileOrder, labels) == labels

parseCsv(csv) ==
    LET columns == {csv.header[i] : i \in DOMAIN csv.header} \ {"image"}
        labels == {CATEGORIES[i] : i \in DOMAIN CATEGORIES}
        index == csv.image
        missingRows ==
            RowsAt(index, {r \in DOMAIN index :
                              \E l \in labels : column(csv, l)[r].t = "nan"})
        nonFloatColumns == {l \in labels : dtype(column(csv, l)) # "float64"}
        outOfRangeRows ==
            RowsAt(index, {r \in DOMAIN index :
                              \E l \in labels : outOfRange(column(csv, l)[r].x)})
    IN IF "image" \notin {csv.header[i] : i \in DOMAIN csv.header}
       THEN ScoreException("Missing column in CSV: image", {}, <<>>)
       ELSE IF hasDuplicates(index)
       THEN ScoreException("ValueError: Index has duplicate keys", {}, <<>>)
       ELSE IF missingColumns(columns) # {}
       THEN ScoreException("Missing columns in CSV", missingColumns(columns), <<>>)
       ELSE IF extraColumns(columns) # {}
       THEN ScoreException("Extra columns in CSV", extraColumns(columns), <<>>)
       ELSE IF missingRows # <<>>
       THEN ScoreException("Missing value(s) in CSV for images", {}, missingRows)
       ELSE IF nonFloatColumns # {}
       THEN ScoreException("CSV contains non-floating-point value(s) in columns",
                           nonFloatColumns, <<>>)
       ELSE IF outOfRangeRows # <<>>
       THEN ScoreException("Values in CSV are outside the interval [0.0, 1.0] for images",
                           {}, outOfRangeRows)
       ELSE Return([columns |-> reindex(SelectSeq(csv.header, LAMBDA c : c # "image"),
                                        CATEGORIES),
                    index |-> index,
                    data |-> [r \in DOMAIN index |->
                                 [l \in labels |-> column(csv, l)[r].x]]])

\* probabilities.drop(index=labels, errors='ignore')
excludeRows(probabilities, labels) ==
    LET keep[k \in 0..Len(probabilities.index)] ==
            IF k = 0 THEN <<>>
            ELSE IF probabilities.index[k] \in labels THEN keep[k - 1]
            ELSE Append(keep[k - 1], k)
        kept == keep[Len(probabilities.index)]
    IN [columns |-> probabilities.columns,
        index |-> [k \in DOMAIN kept |-> probabilities.index[kept[k]]],
        data |-> [k \in DOMAIN kept |-> probabilities.data[kept[k]]]]

\* the ids of a set in ascending order (pandas orders str labels as Python)
RECURSIVE sortLabels(_)
sortLabels(ids) ==
    IF ids = {} THEN <<>>
    ELSE LET m == CHOOSE x \in ids : \A y \in ids : x = y \/ StrLess(x, y)
         IN <<m>> \o sortLabels(ids \ {m})

\* a.difference(b) of two Index objects: unique and sorted
difference(a, b) ==
    sortLabels({a[i] : i \in DOMAIN a} \ {b[i] : i \in DOMAIN b})

\* validateRows without its second check
validateRowsMissingOnly(truth, prediction) ==
    IF difference(truth.index, prediction.index) # <<>>
    THEN ScoreException("Missing images in CSV", {},
                        difference(truth.index, prediction.index))
    ELSE Return("None")

validateRows(truth, prediction) ==
    LET missingImages == difference(truth.index, prediction.index)
        extraImages == difference(prediction.index, truth.index)
    IN IF missingImages # <<>>
       THEN ScoreException("Missing images in CSV", {}, missingImages)
       ELSE IF extraImages # <<>>
       THEN ScoreException("Extra images in CSV", {}, extraImages)
       ELSE Return("None")

\* sortRows that leaves the rows as they are
sortRowsNot(probabilities) == probabilities

\* probabilities.sort_index(axis='rows'): the index is unique after parseCsv
sortRows(probabilities) ==
    LET order == sortLabels({probabilities.index[i] : i \in DOMAIN probabilities.index})
        at(id) == CHOOSE r \in DOMAIN probabilities.index : probabilities.index[r] = id
    IN [columns |-> probabilities.columns,
        index |-> order,
        data |-> [k \in DOMAIN order |-> probabilities.data[at(order[k])]]]

(***************************************************************************)
(* The inputs of the segmentation side.                                    *)
(***************************************************************************)
Shapes == {hw \in (1..MaxPixels) \X (1..MaxPixels) : hw[1] * hw[2] <= MaxPixels}

File(shape, data) == [decodable |-> TRUE, mode |-> "L", shape |-> shape, data |-> data]

Undecodable == [decodable |-> FALSE, mode |-> "", shape |-> <<0, 0>>, data |-> <<>>]

NoFile == Undecodable

\* samples of raw single-channel files given to loadImage
RawValues == {0, 1, 3, 7, 255}

\* samples of ground-truth masks and of submitted masks given to scoreP1Image
TruthValues == {0, 255}

TestValues == {0, 1, 255}

\* file is a single-channel file of some shape with samples in `values`
IsGrid(file, values) ==
    \E hw \in Shapes : \E d \in [1..(hw[1] * hw[2]) -> values] : file = File(hw, d)

\* file names: the non-empty strings over '0' and '_' of at most n characters
Alphabet == {48, Underscore}

Names(n) == UNION { [1..k -> Alphabet] : k \in 1..n }

\* the listings of a directory holding at most n files named in `names`
Listings(names, n) ==
    UNION { {l \in [1..k -> names] : \A i, j \in 1..k : i # j => l[i] # l[j]}
            : k \in 0..n }

Directories(names, n) == {d \in SUBSET names : Cardinality(d) <= n}

\* what the files of a run may hold
RunFiles == {Undecodable, File(<<1, 2>>, <<0, 255>>), File(<<1, 2>>, <<0, 0>>)}

NoTable == [columns |-> <<>>, index |-> <<>>, data |-> <<>>]

NoCsv == [header |-> <<>>, rows |-> <<>>]

SegmentationIdle ==
    /\ imagePath = NoFile
    /\ truthPath = NoFile
    /\ testPath = NoFile
    /\ truthFile = <<>>
    /\ truthDir = {}
    /\ testDir = <<>>
    /\ scores = <<>>
    /\ attempted = 0

ClassificationIdle ==
    /\ csvFileStream = NoCsv
    /\ truthFileStream = NoCsv
    /\ predictionFileStream = NoCsv
    /\ truthProbabilities = NoTable
    /\ predictionProbabilities = NoTable

(***************************************************************************)
(* loadImage on one file.                                                  *)
(***************************************************************************)
InitLoad ==
    /\ pc = "loadImage"
    /\ \/ imagePath = Undecodable
       \/ IsGrid(imagePath, RawValues)
       \/ \E hw \in Shapes :
             \E d \in [1..(hw[1] * hw[2]) -> TruthValues] :
                imagePath = [File(hw, d) EXCEPT !.mode = "RGB"]
    /\ truthPath = NoFile /\ testPath = NoFile /\ truthFile = <<>>
    /\ truthDir = {} /\ testDir = <<>> /\ scores = <<>> /\ attempted = 0
    /\ ClassificationIdle
    /\ out = "none"

LoadImage ==
    /\ pc = "loadImage"
    /\ \E outcome \in loadImage(imagePath) : out' = outcome
    /\ pc' = "done"
    /\ UNCHANGED <<imagePath, truthPath, testPath, truthFile, truthDir, testDir,
                   scores, attempted, csvFileStream, truthFileStream,
                   predictionFileStream, truthProbabilities,
                   predictionProbabilities>>

NextLoad == LoadImage

SpecLoad == InitLoad /\ [][NextLoad]_vars

(***************************************************************************)
(* scoreP1Image on one pair of files.                                      *)
(***************************************************************************)
InitImage ==
    /\ pc = "scoreP1Image"
    /\ IsGrid(truthPath, TruthValues)
    /\ IsGrid(testPath, TestValues)
    /\ imagePath = NoFile /\ truthFile = <<>>
    /\ truthDir = {} /\ testDir = <<>> /\ scores = <<>> /\ attempted = 0
    /\ ClassificationIdle
    /\ out = "none"

ScoreP1Image ==
    /\ pc = "scoreP1Image"
    /\ \E run \in scoreP1Image(truthPath, testPath) : out' = run
    /\ pc' = "done"
    /\ UNCHANGED <<imagePath, truthPath, testPath, truthFile, truthDir, testDir,
                   scores, attempted, csvFileStream, truthFileStream,
                   predictionFileStream, truthProbabilities,
                   predictionProbabilities>>

NextImage == ScoreP1Image

SpecImage == InitImage /\ [][NextImage]_vars

(***************************************************************************)
(* matchInputFile on one file name and one listing.                        *)
(***************************************************************************)
InitMatch ==
    /\ pc = "matchInputFile"
    /\ truthFile \in Names(MaxNameLen)
    /\ testDir \in Listings(Names(MaxNameLen), MaxCandidates)
    /\ imagePath = NoFile /\ truthPath = NoFile /\ testPath = NoFile
    /\ truthDir = {} /\ scores = <<>> /\ attempted = 0
    /\ ClassificationIdle
    /\ out = "none"

MatchInputFile ==
    /\ pc = "matchInputFile"
    /\ out' = matchInputFile(truthFile, testDir)
    /\ pc' = "done"
    /\ UNCHANGED <<imagePath, truthPath, testPath, truthFile, truthDir, testDir,
                   scores, attempted, csvFileStream, truthFileStream,
                   predictionFileStream, truthProbabilities,
                   predictionProbabilities>>

NextMatch == MatchInputFile

SpecMatch == InitMatch /\ [][NextMatch]_vars

(***************************************************************************)
(* scoreP1 on a ground-truth directory and a submission directory.         *)
(* A file's content is drawn when the file is read, and is not kept.       *)
(***************************************************************************)
InitRun ==
    /\ pc = "scoreP1"
    /\ truthDir \in Directories(Names(MaxNameLen), MaxFiles)
    /\ testDir \in Listings(Names(MaxTestNameLen), MaxTestFiles)
    /\ scores = <<>>
    /\ attempted = 0
    /\ truthFile = <<>>
    /\ imagePath = NoFile /\ truthPath = NoFile /\ testPath = NoFile
    /\ ClassificationIdle
    /\ out = "none"

\* the loop with `except Exception: continue` in place of `raise`
ScoreP1IterationContinue ==
    /\ pc = "scoreP1"
    /\ attempted < Len(sorted(truthDir))
    /\ truthFile' = sorted(truthDir)[attempted + 1]
    /\ attempted' = attempted + 1
    /\ \E truthContent \in RunFiles, testContent \in RunFiles :
         \E step \in loopBody(truthFile', testDir, truthContent, testContent) :
            /\ scores' = IF step.ok THEN Append(scores, step.value) ELSE scores
            /\ UNCHANGED <<pc, out>>
    /\ UNCHANGED <<imagePath, truthPath, testPath, truthDir, testDir,
                   csvFileStream, truthFileStream, predictionFileStream,
                   truthProbabilities, predictionProbabilities>>

\* lines 108-124: one pass of the loop, on the next name of the sorted list
ScoreP1Iteration ==
    /\ pc = "scoreP1"
    /\ attempted < Len(sorted(truthDir))
    /\ truthFile' = sorted(truthDir)[attempted + 1]
    /\ attempted' = attempted + 1
    /\ \E truthContent \in RunFiles, testContent \in RunFiles :
         \E step \in loopBody(truthFile', testDir, truthContent, testContent) :
            /\ IF step.ok
               THEN /\ scores' = Append(scores, step.value)
                    /\ UNCHANGED <<pc, out>>
               ELSE /\ out' = Raise(step.error)
                    /\ pc' = "done"
                    /\ UNCHANGED scores
    /\ UNCHANGED <<imagePath, truthPath, testPath, truthDir, testDir,
                   csvFileStream, truthFileStream, predictionFileStream,
                   truthProbabilities, predictionProbabilities>>

\* line 126: return scores
ScoreP1Return ==
    /\ pc = "scoreP1"
    /\ attempted = Len(sorted(truthDir))
    /\ out' = Return(scores)
    /\ pc' = "done"
    /\ UNCHANGED <<imagePath, truthPath, testPath, truthFile, truthDir, testDir,
                   scores, attempted, csvFileStream, truthFileStream,
                   predictionFileStream, truthProbabilities,
                   predictionProbabilities>>

NextRun == ScoreP1Iteration \/ ScoreP1Return

SpecRun == InitRun /\ [][NextRun]_vars

(***************************************************************************)
(* The inputs of the classification side.                                  *)
(***************************************************************************)
\* the columns of a well-formed file, and an unrecognized column "X"
FileOrder == <<"image", "MEL", "NV", "BCC", "AKIEC", "BKL", "DF", "VASC", "X">>

Reversed(s) == [i \in DOMAIN s |-> s[Len(s) + 1 - i]]

Keep(s, kept) == SelectSeq(s, LAMBDA c : c \in kept)

\* every choice of columns, in file order or in the reverse order
Headers ==
    {Keep(order, kept) : order \in {FileOrder, Reversed(FileOrder)},
                         kept \in SUBSET Range(FileOrder)}

\* image identifiers 'A', 'B', 'C', 'D'
ImageA == <<65>>
ImageB == <<66>>
ImageC == <<67>>
ImageD == <<68>>

IdLists(ids, n) == UNION { [1..k -> ids] : k \in 0..n }

CellTexts == {"0.5", "", "abc", "1", "0.0", "1.0", "1.5", "-0.5"}

\* the columns whose cells vary
VariedColumns == {"MEL", "VASC"}

\* csv has any header, and cells "0.5" but for a first row filled alike
IsHeaderCsv(csv) ==
    \E h \in Headers, ids \in IdLists({ImageA, ImageB}, MaxCsvRows),
       fill \in {"0.5", ""} :
        csv = [header |-> h,
               image |-> ids,
               cells |-> [r \in DOMAIN ids |->
                             [l \in Range(h) \ {"image"} |->
                                 IF r = 1 THEN fill ELSE "0.5"]]]

\* csv has all columns, in either order, and at most MaxBadCells cells of
\* the varied columns that are not "0.5"
IsCellCsv(csv) ==
    \E order \in {FileOrder, Reversed(FileOrder)},
       ids \in IdLists({ImageA, ImageB}, MaxCsvRows) :
        \E places \in {p \in SUBSET ((DOMAIN ids) \X VariedColumns) :
                          Cardinality(p) <= MaxBadCells} :
            \E varied \in [places -> CellTexts \ {"0.5"}] :
                csv = [header |-> Keep(order, Range(FileOrder) \ {"X"}),
                       image |-> ids,
                       cells |-> [r \in DOMAIN ids |->
                                     [l \in Range(FileOrder) \ {"image", "X"} |->
                                         IF <<r, l>> \in places THEN varied[<<r, l>>]
                                         ELSE "0.5"]]]

\* a well-formed file with the rows `ids`
AlignedCsv(ids) ==
    [header |-> Keep(FileOrder, Range(FileOrder) \ {"X"}),
     image |-> ids,
     cells |-> [r \in DOMAIN ids |->
                   [l \in Range(FileOrder) \ {"image", "X"} |-> "0.5"]]]

\* ground-truth rows (C may go missing) and submitted rows (D may be extra)
TruthIds == {ImageA, ImageB, ImageC} \cup EXCLUDE_LABELS

PredictionIds == {ImageA, ImageB, ImageD} \cup EXCLUDE_LABELS

(***************************************************************************)
(* parseCsv on one CSV.                                                    *)
(***************************************************************************)
InitCsv ==
    /\ pc = "parseCsv"
    /\ IsHeaderCsv(csvFileStream) \/ IsCellCsv(csvFileStream)
    /\ truthFileStream = NoCsv /\ predictionFileStream = NoCsv
    /\ truthProbabilities = NoTable /\ predictionProbabilities = NoTable
    /\ SegmentationIdle
    /\ out = "none"

ParseCsv ==
    /\ pc = "parseCsv"
    /\ out' = parseCsv(csvFileStream)
    /\ pc' = "done"
    /\ UNCHANGED <<imagePath, truthPath, testPath, truthFile, truthDir, testDir,
                   scores, attempted, csvFileStream, truthFileStream,
                   predictionFileStream, truthProbabilities,
                   predictionProbabilities>>

NextCsv == ParseCsv

SpecCsv == InitCsv /\ [][NextCsv]_vars

(***************************************************************************)
(* computeMetrics on a ground-truth CSV and a submitted CSV, line by line. *)
(***************************************************************************)
InitMetrics ==
    /\ pc = "parseTruth"
    /\ \E ids \in IdLists(TruthIds, MaxImages) : truthFileStream = AlignedCsv(ids)
    /\ \E ids \in IdLists(PredictionIds, MaxImages) :
          predictionFileStream = AlignedCsv(ids)
    /\ csvFileStream = NoCsv
    /\ truthProbabilities = NoTable /\ predictionProbabilities = NoTable
    /\ SegmentationIdle
    /\ out = "none"

SegmentationUnchanged ==
    UNCHANGED <<imagePath, truthPath, testPath, truthFile, truthDir, testDir,
                scores, attempted, csvFileStream, truthFileStream,
                predictionFileStream>>

\* line 115
ParseTruth ==
    /\ pc = "parseTruth"
    /\ LET parsed == parseCsv(truthFileStream)
       IN IF parsed.ok
          THEN /\ truthProbabilities' = parsed.value
               /\ pc' = "parsePrediction"
               /\ UNCHANGED out
          ELSE /\ out' = parsed
               /\ pc' = "done"
               /\ UNCHANGED truthProbabilities
    /\ UNCHANGED predictionProbabilities
    /\ SegmentationUnchanged

\* line 116
ParsePrediction ==
    /\ pc = "parsePrediction"
    /\ LET parsed == parseCsv(predictionFileStream)
       IN IF parsed.ok
          THEN /\ predictionProbabilities' = parsed.value
               /\ pc' = "excludeRows"
               /\ UNCHANGED out
          ELSE /\ out' = parsed
               /\ pc' = "done"
               /\ UNCHANGED predictionProbabilities
    /\ UNCHANGED truthProbabilities
    /\ SegmentationUnchanged

\* lines 118-119
ExcludeRows ==
    /\ pc = "excludeRows"
    /\ truthProbabilities' = excludeRows(truthProbabilities, EXCLUDE_LABELS)
    /\ predictionProbabilities' = excludeRows(predictionProbabilities, EXCLUDE_LABELS)
    /\ pc' = "validateRows"
    /\ UNCHANGED out
    /\ SegmentationUnchanged

\* line 121
ValidateRows ==
    /\ pc = "validateRows"
    /\ LET validated == validateRows(truthProbabilities, predictionProbabilities)
       IN IF validated.ok
          THEN pc' = "sortRows" /\ UNCHANGED out
          ELSE pc' = "done" /\ out' = validated
    /\ UNCHANGED <<truthProbabilities, predictionProbabilities>>
    /\ SegmentationUnchanged

\* lines 123-124
SortRows ==
    /\ pc = "sortRows"
    /\ truthProbabilities' = sortRows(truthProbabilities)
    /\ predictionProbabilities' = sortRows(predictionProbabilities)
    /\ pc' = "scores"
    /\ UNCHANGED out
    /\ SegmentationUnchanged

\* lines 126-186: the Score Records, 'aggregate' first and then one per
\* category; the metric values come from the module `metrics`, which is not
\* among the sources, and are left out
ComputeScores ==
    /\ pc = "scores"
    /\ out' = Return(<<"aggregate">> \o CATEGORIES)
    /\ pc' = "done"
    /\ UNCHANGED <<truthProbabilities, predictionProbabilities>>
    /\ SegmentationUnchanged

NextMetrics ==
    \/ ParseTruth
    \/ ParsePrediction
    \/ ExcludeRows
    \/ ValidateRows
    \/ SortRows
    \/ ComputeScores

SpecMetrics == InitMetrics /\ [][NextMetrics]_vars

(***************************************************************************)
(* Claims on the segmentation side.                                        *)
(***************************************************************************)
Positives(image) == {i \in DOMAIN image.data : image.data[i] > 128}

MetricValues(metrics) == {metrics[i].value : i \in DOMAIN metrics}

MetricNames(metrics) == [i \in DOMAIN metrics |-> metrics[i].name]

\* C1: whenever loadImage returns a grid, every sample of it is 0 or 255,
\* and an input with three or more distinct values is rejected.
C1_ReturnedSamplesAre0Or255 ==
    pc = "done" =>
        /\ out.ok => Range(out.value.data) \subseteq {0, 255}
        /\ (imagePath.decodable /\ Cardinality(Range(imagePath.data)) >= 3)
              => ~out.ok

\* C2 as stated: scoring any normalized mask against itself gives 1.0 for
\* all five metrics.
C2_IdenticalMasksScoreOne ==
    (pc = "done" /\ truthPath = testPath) =>
        /\ out.result.ok
        /\ MetricValues(out.result.value) = {One}

\* C2 as amended: scoring a normalized mask against itself gives 1.0 for all
\* five metrics when the mask holds both a 0 and a 255 sample, and fails
\* with a division by zero when the mask is all 0 or all 255.
C2_IdenticalMixedMasksScoreOne ==
    (pc = "done" /\ truthPath = testPath) =>
        IF Range(truthPath.data) = {0, 255}
        THEN /\ out.result.ok
             /\ MetricNames(out.result.value) =
                   <<"accuracy", "jaccard", "dice", "sensitivity", "specificity">>
             /\ MetricValues(out.result.value) = {One}
        ELSE out.result = Raise("ZeroDivisionError")

C2_Witness ==
    /\ pc = "done"
    /\ truthPath = testPath
    /\ truthPath.shape = <<2, 2>>
    /\ Range(truthPath.data) = {0, 255}
    /\ out.result.ok

\* C10: when the counts are computed, every sample position falls in
\* exactly one of TP, TN, FP, FN (a sample is positive iff > 128), so their
\* sum is the number of samples, TP+FN the truth positives and TP+FP the
\* submission positives; a submission that is the complement of the truth
\* has TP = TN = 0; [[255,0],[0,255]] against [[0,255],[255,0]] gives
\* TP=0, TN=0, FP=2, FN=2 and accuracy 0.0.
C10_ConfusionCountsPartition ==
    (pc = "done" /\ out.counts # NoCounts) =>
        LET c == out.counts
            all == DOMAIN out.truthImage.data
            tPos == Positives(out.truthImage)
            sPos == Positives(out.testImage)
        IN /\ DOMAIN out.testImage.data = all
           /\ c.truePositive = Cardinality(tPos \cap sPos)
           /\ c.trueNegative = Cardinality(all \ (tPos \cup sPos))
           /\ c.falsePositive = Cardinality(sPos \ tPos)
           /\ c.falseNegative = Cardinality(tPos \ sPos)
           /\ c.truePositive + c.trueNegative + c.falsePositive + c.falseNegative
                 = Cardinality(all)
           /\ c.truePositive + c.falseNegative = Cardinality(tPos)
           /\ c.truePositive + c.falsePositive = Cardinality(sPos)
           /\ c.truthPixelSum = Cardinality(tPos)
           /\ c.testPixelSum = Cardinality(sPos)
           /\ sPos = all \ tPos => c.truePositive = 0 /\ c.trueNegative = 0
           /\ (out.truthImage.data = <<255, 0, 0, 255>>
               /\ out.testImage.data = <<0, 255, 255, 0>>)
                 => /\ c.truePositive = 0 /\ c.trueNegative = 0
                    /\ c.falsePositive = 2 /\ c.falseNegative = 2
                    /\ out.result.ok
                    /\ out.result.value[1] = [name |-> "accuracy", value |-> Zero]

C10_Witness ==
    /\ pc = "done"
    /\ truthPath = File(<<2, 2>>, <<255, 0, 0, 255>>)
    /\ testPath = File(<<2, 2>>, <<0, 255, 255, 0>>)
    /\ out.counts.falsePositive = 2
    /\ out.counts.falseNegative = 2

\* the second '_'-separated token of a name, where the name has a '_'
HasUnderscore(name) == \E i \in DOMAIN name : name[i] = Underscore

Identifier(name) ==
    LET first == CHOOSE i \in DOMAIN name :
                     name[i] = Underscore /\ \A j \in 1..(i - 1) : name[j] # Underscore
        later == {i \in (first + 1)..Len(name) : name[i] = Underscore}
        stop == IF later = {} THEN Len(name) + 1
                ELSE CHOOSE i \in later : \A j \in later : i <= j
    IN SubSeq(name, first + 1, stop - 1)

\* the positions of the candidates that contain the identifier
Matching(name, listing) ==
    IF HasUnderscore(name)
    THEN {i \in DOMAIN listing : Contains(Identifier(name), listing[i])}
    ELSE {}

FirstMatchOrNoMatch(name, listing, outcome) ==
    LET matching == Matching(name, listing)
    IN IF matching = {}
       THEN outcome = Raise("No matching submission image")
       ELSE /\ outcome.ok
            /\ \E i \in matching : /\ \A j \in matching : i <= j
                                   /\ outcome.value = listing[i]

\* C8 as stated: for every ground-truth file name and listing, the first
\* candidate containing the identifier is returned, and the call fails with
\* 'No matching submission image' exactly when no candidate contains it.
C8_FirstMatchForEveryName ==
    pc = "done" => FirstMatchOrNoMatch(truthFile, testDir, out)

\* C8 as amended: the same for every ground-truth file name that contains a
\* '_'; for a name without '_' (no second token) the call fails with 'No
\* matching submission image' on an empty listing and with IndexError
\* otherwise.
C8_FirstMatchForNamesWithUnderscore ==
    pc = "done" =>
        IF HasUnderscore(truthFile)
        THEN FirstMatchOrNoMatch(truthFile, testDir, out)
        ELSE out = IF testDir = <<>> THEN Raise("No matching submission image")
                   ELSE Raise("IndexError")

C8_Witness ==
    /\ pc = "done"
    /\ Cardinality(Matching(truthFile, testDir)) = 1
    /\ Len(testDir) = 2
    /\ out.ok
    /\ out.value = testDir[2]

\* the names of a directory in ascending order, by search
Ascending(names) ==
    CHOOSE l \in [1..Cardinality(names) -> names] :
        \A i, j \in DOMAIN l : i < j => StrLess(l[i], l[j])

StrLessEq(a, b) == a = b \/ StrLess(a, b)

\* C3 as stated: the records that scoreP1 returns are in ascending order of
\* their 'dataset' field.
C3_SortedByDataset ==
    (pc = "done" /\ out.ok) =>
        \A i, j \in DOMAIN out.value :
            i < j => StrLessEq(out.value[i].dataset, out.value[j].dataset)

\* C3 as amended: the records that scoreP1 returns are in ascending order of
\* the ground-truth file names, the i-th record's dataset being the i-th
\* smallest file name with everything from its last '_' onward stripped.
C3_SortedByFileName ==
    (pc = "done" /\ out.ok) =>
        /\ Len(out.value) = Cardinality(truthDir)
        /\ \A i \in DOMAIN out.value :
              out.value[i].dataset = rsplit(Ascending(truthDir)[i])

C3_Witness ==
    /\ pc = "done"
    /\ out.ok
    /\ Len(out.value) = 2
    /\ StrLess(out.value[2].dataset, out.value[1].dataset)

\* C4: a run ends in one of two ways: it returns a list holding exactly one
\* record for every ground-truth file, or it raises the error of the first
\* file that failed, returns no record, and has begun no later file.
C4_AllOrNothing ==
    /\ pc = "done" =>
          IF out.ok
          THEN /\ out.value = scores
               /\ attempted = Cardinality(truthDir)
               /\ Len(out.value) = Cardinality(truthDir)
               /\ \A f \in truthDir :
                     Cardinality({i \in DOMAIN out.value :
                                     Ascending(truthDir)[i] = f
                                     /\ out.value[i].dataset = rsplit(f)}) = 1
          ELSE /\ DOMAIN out = {"ok", "error"}
               /\ attempted = Len(scores) + 1
               /\ truthFile = Ascending(truthDir)[attempted]
    /\ pc # "done" => (out = "none" /\ attempted = Len(scores))

C4_Witness ==
    /\ pc = "done"
    /\ ~out.ok
    /\ Len(scores) = 1
    /\ Cardinality(truthDir) = 2

(***************************************************************************)
(* Claims on the classification side.                                      *)
(***************************************************************************)
Labels == {"MEL", "NV", "BCC", "AKIEC", "BKL", "DF", "VASC"}

HeaderLabels(csv) == Range(csv.header) \ {"image"}

Distinct(ids) == \A i, j \in DOMAIN ids : i # j => ids[i] # ids[j]

FloatTexts == {"-0.5", "0.0", "0.5", "1.0", "1.5"}

IntegerTexts == {"0", "1"}

\* an input that breaks one of the rules of the Probability Table
BreaksTableRules(csv) ==
    \/ "image" \notin Range(csv.header)
    \/ ~Distinct(csv.image)
    \/ HeaderLabels(csv) # Labels
    \/ \E r \in DOMAIN csv.cells, l \in Labels : csv.cells[r][l] = ""
    \/ \E l \in Labels :
          \/ \E r \in DOMAIN csv.cells :
                csv.cells[r][l] \notin FloatTexts \cup IntegerTexts
          \/ \A r \in DOMAIN csv.cells : csv.cells[r][l] \in IntegerTexts
    \/ \E r \in DOMAIN csv.cells, l \in Labels : csv.cells[r][l] \in {"-0.5", "1.5"}

\* C5: a table that parseCsv returns has exactly the seven category columns
\* in canonical order, pairwise distinct row identifiers, no missing cell
\* and every value in [0.0, 1.0] (in tenths: 0..10); an input without
\* 'image', with a duplicate identifier, a missing or extra category column,
\* an empty cell, a non-floating-point column or an out-of-range value makes
\* parseCsv fail.
C5_ReturnedTableInvariant ==
    pc = "done" =>
        /\ out.ok =>
              /\ out.value.columns = <<"MEL", "NV", "BCC", "AKIEC", "BKL", "DF", "VASC">>
              /\ out.value.index = csvFileStream.image
              /\ Distinct(out.value.index)
              /\ DOMAIN out.value.data = DOMAIN out.value.index
              /\ \A r \in DOMAIN out.value.data :
                    /\ DOMAIN out.value.data[r] = Labels
                    /\ \A l \in Labels : out.value.data[r][l] \in 0..10
        /\ BreaksTableRules(csvFileStream) => ~out.ok

C5_Witness ==
    /\ pc = "done"
    /\ out.ok
    /\ csvFileStream.header[1] = "VASC"
    /\ Len(out.value.index) = 2
    /\ out.value.data[1]["MEL"] = 10
    /\ out.value.data[2]["MEL"] = 0

\* C9 as stated: a table that lacks category columns is rejected with the
\* error that names exactly the missing labels, whatever else is wrong.
C9_MissingLabelsAlwaysNamed ==
    (pc = "done" /\ Labels \ HeaderLabels(csvFileStream) # {}) =>
        /\ ~out.ok
        /\ out.error.message = "Missing columns in CSV"
        /\ out.error.columns = Labels \ HeaderLabels(csvFileStream)

\* C9 as amended: a table that lacks category columns is never returned; it
\* is rejected with the error that names exactly the missing labels when it
\* has an 'image' column with pairwise distinct identifiers, whatever else
\* is wrong with its columns and cells; without an 'image' column it fails
\* with the missing-'image' error, and with a duplicate identifier with the
\* duplicate-key error of set_index.
C9_MissingLabelsNamedAfterIndexChecks ==
    (pc = "done" /\ Labels \ HeaderLabels(csvFileStream) # {}) =>
        /\ ~out.ok
        /\ out.error.message =
              IF "image" \notin Range(csvFileStream.header)
              THEN "Missing column in CSV: image"
              ELSE IF ~Distinct(csvFileStream.image)
              THEN "ValueError: Index has duplicate keys"
              ELSE "Missing columns in CSV"
        /\ out.error.message = "Missing columns in CSV" =>
              out.error.columns = Labels \ HeaderLabels(csvFileStream)

C9_Witness ==
    /\ pc = "done"
    /\ Labels \ HeaderLabels(csvFileStream) = {"NV", "DF"}
    /\ "X" \in HeaderLabels(csvFileStream)
    /\ Len(csvFileStream.image) = 2
    /\ csvFileStream.cells[1]["MEL"] = ""
    /\ ~out.ok
    /\ out.error.columns = {"NV", "DF"}

\* validateRows has run: it passed, or it raised one of its two errors
Validated == pc \in {"sortRows", "scores"} \/ (pc = "done" /\ out.ok)

ValidationFailed ==
    /\ pc = "done"
    /\ ~out.ok
    /\ out.error.message \in {"Missing images in CSV", "Extra images in CSV"}

\* the rows that validateRows compares: those left by the exclusion step
Compared(csv) == Range(csv.image) \ EXCLUDE_LABELS

MissingIds == Compared(truthFileStream) \ Compared(predictionFileStream)

ExtraIds == Compared(predictionFileStream) \ Compared(truthFileStream)

Lists(error, message, ids) ==
    /\ error.message = message
    /\ Range(error.images) = ids
    /\ Len(error.images) = Cardinality(ids)

\* C6 as stated: validation passes iff the identifier sets are equal; a
\* missing identifier gives the missing-records error listing exactly the
\* missing ones, and an extra identifier gives the extra-records error
\* listing exactly the extra ones, each check on its own.
C6_BothChecksReport ==
    /\ Validated => (MissingIds = {} /\ ExtraIds = {})
    /\ ValidationFailed =>
          /\ MissingIds # {} \/ ExtraIds # {}
          /\ MissingIds # {} => Lists(out.error, "Missing images in CSV", MissingIds)
          /\ ExtraIds # {} => Lists(out.error, "Extra images in CSV", ExtraIds)

\* C6 as amended: validation passes iff the identifier sets are equal; a
\* missing identifier gives the missing-records error listing exactly the
\* missing ones, whether or not there are extra ones; the extra-records
\* error, listing exactly the extra ones, is raised only when no identifier
\* is missing.
C6_MissingCheckFirst ==
    /\ Validated => (MissingIds = {} /\ ExtraIds = {})
    /\ ValidationFailed =>
          IF MissingIds # {}
          THEN Lists(out.error, "Missing images in CSV", MissingIds)
          ELSE /\ ExtraIds # {}
               /\ Lists(out.error, "Extra images in CSV", ExtraIds)

C6_Witness ==
    /\ ValidationFailed
    /\ MissingIds = {}
    /\ ExtraIds = {ImageD}
    /\ Cardinality(Compared(truthFileStream)) = 2

\* C7: when computeMetrics reaches the metric computation, the two tables
\* have the same number of rows, the same identifier in every row, the
\* identifiers in strictly ascending order, and no excluded identifier.
C7_RowsAlignedAtMetrics ==
    pc = "scores" =>
        /\ Len(truthProbabilities.index) = Len(predictionProbabilities.index)
        /\ Len(truthProbabilities.data) = Len(truthProbabilities.index)
        /\ Len(predictionProbabilities.data) = Len(predictionProbabilities.index)
        /\ \A i \in DOMAIN truthProbabilities.index :
              truthProbabilities.index[i] = predictionProbabilities.index[i]
        /\ \A i, j \in DOMAIN truthProbabilities.index :
              i < j => StrLess(truthProbabilities.index[i], truthProbabilities.index[j])
        /\ \A i \in DOMAIN truthProbabilities.index :
              truthProbabilities.index[i] \notin EXCLUDE_LABELS
        /\ \A i \in DOMAIN predictionProbabilities.index :
              predictionProbabilities.index[i] \notin EXCLUDE_LABELS
        /\ Range(truthProbabilities.index) = Compared(truthFileStream)

C7_Witness ==
    /\ pc = "scores"
    /\ truthFileStream.image = <<ImageB, ImageA>>
    /\ Len(predictionFileStream.image) = 3
    /\ predictionFileStream.image[1] = ImageA
    /\ predictionFileStream.image[2] \in EXCLUDE_LABELS
    /\ truthProbabilities.index = <<ImageA, ImageB>>

====
